---- MODULE Spec2Model ----
(***************************************************************************)
(* Model of distbuild/bootstrap (src/bootstrap.go).  The file holds three  *)
(* variants of the same program:                                           *)
(*   "scp"    lines   1-224  clone, download, transferAgent                *)
(*   "deploy" lines 226-534  --deploy-agent switch, clone/download/symlink *)
(*   "plain"  lines 536-788  clone, download, createSymlinks               *)
(* A behaviour is one run of one variant: cobra parses the flags, run()    *)
(* loads the bundled .env, then the steps of the selected mode execute.    *)
(* downloadResources fans out three goroutines that report on errChan.     *)
(***************************************************************************)
EXTENDS Integers, Sequences, FiniteSets, TLC

Variants == {"scp", "deploy", "plain"}

\* The go statements of downloadResources, in program order.
Resources == <<"proxy", "agent", "distninja">>

ResourceSet == {Resources[i] : i \in 1..Len(Resources)}

UrlVar(r) ==
    CASE r = "proxy" -> "PROXY_BIN"
      [] r = "agent" -> "AGENT_BIN"
      [] r = "distninja" -> "DISTNINJA_BIN"

RecvCountTooFew == Len(Resources) - 2

\* for i := 0; i < 3; i++
RecvCount == 3

StatusOK == 200

\* Status codes a server answers with.
StatusCodes == {200, 404}

(***************************************************************************)
(* Errors.  fmt.Errorf("... [%s]", filepath.Base(filePath)) is a record of *)
(* the message kind and the file named; run() wraps it with the step.      *)
(***************************************************************************)
Nil == [wrap |-> "", kind |-> "nil", file |-> ""]

Err(kind, file) == [wrap |-> "", kind |-> kind, file |-> file]

Wrap(w, e) == [wrap |-> w, kind |-> e.kind, file |-> e.file]

(***************************************************************************)
(* The .env text.  A line is a sequence of tokens; "#", "=" and " " are    *)
(* the characters loadEnvFile looks at, every other token stands for a run *)
(* of ordinary characters.                                                 *)
(***************************************************************************)
RECURSIVE Join(_)
Join(toks) == IF toks = <<>> THEN "" ELSE Head(toks) \o Join(Tail(toks))

\* strings.HasPrefix(line, "#")
HasPrefix(line, c) == line # <<>> /\ Head(line) = c

\* index of the first sep in line, 0 when there is none
RECURSIVE IndexOf(_, _, _)
IndexOf(line, sep, i) ==
    IF i > Len(line) THEN 0
    ELSE IF line[i] = sep THEN i
    ELSE IndexOf(line, sep, i + 1)

\* strings.SplitN(line, "=", 2)
SplitN2(line) ==
    LET i == IndexOf(line, "=", 1) IN
    IF i = 0 THEN <<line>>
    ELSE <<SubSeq(line, 1, i - 1), SubSeq(line, i + 1, Len(line))>>

RECURSIVE TrimLeft(_)
TrimLeft(s) == IF s # <<>> /\ Head(s) = " " THEN TrimLeft(Tail(s)) ELSE s

RECURSIVE TrimRight(_)
TrimRight(s) ==
    IF s # <<>> /\ s[Len(s)] = " " THEN TrimRight(SubSeq(s, 1, Len(s) - 1)) ELSE s

\* strings.TrimSpace
TrimSpace(s) == TrimRight(TrimLeft(s))

\* os.Setenv: an empty name is EINVAL, and loadEnvFile drops the error.
Setenv(e, key, value) ==
    IF key = "" THEN e
    ELSE [k \in DOMAIN e \cup {key} |-> IF k = key THEN value ELSE e[k]]

\* One iteration of the scanner loop of loadEnvFile.
LoadLine(e, line) ==
    IF line = <<>> \/ HasPrefix(line, "#") THEN e
    ELSE LET parts == SplitN2(line) IN
         IF Len(parts) # 2 THEN e
         ELSE Setenv(e, Join(TrimSpace(parts[1])), Join(TrimSpace(parts[2])))

RECURSIVE LoadLines(_, _)
LoadLines(e, content) ==
    IF content = <<>> THEN e
    ELSE LoadLines(LoadLine(e, Head(content)), Tail(content))

\* The keys a .env text assigns (the lines loadEnvFile does not skip).
FileKeys(content) ==
    {Join(TrimSpace(SplitN2(content[i])[1])) :
        i \in {j \in 1..Len(content) :
                 /\ content[j] # <<>>
                 /\ ~HasPrefix(content[j], "#")
                 /\ Len(SplitN2(content[j])) = 2}} \ {""}

\* os.LookupEnv
LookupEnv(e, key) == key \in DOMAIN e

\* os.Getenv
Getenv(e, key) == IF key \in DOMAIN e THEN e[key] ELSE ""

(***************************************************************************)
(* Inputs: the bundled .env, the inherited environment, the command line   *)
(* and the state of the disk before the run.                               *)
(***************************************************************************)
Defaults ==
    << <<"#", " ", "bundled defaults">>,
       <<>>,
       <<"DISTBUILD_REPO", "=", "repo.bundled">>,
       <<" ", "PROXY_BIN", " ", "=", " ", "proxy.bundled", " ">>,
       <<"AGENT_BIN", "=", "agent.bundled">>,
       <<"DISTNINJA_BIN", "=", "ninja.bundled">>,
       <<"DISTBUILD_AUTH_USER", "=", "user">>,
       <<"DISTBUILD_AUTH_PASSWORD", "=", "pass", "=", "word">>,
       <<"NOT_AN_ASSIGNMENT">>,
       <<"=", "no key">> >>

ConfigKeys ==
    {"DISTBUILD_REPO", "PROXY_BIN", "AGENT_BIN", "DISTNINJA_BIN",
     "DISTBUILD_AUTH_USER", "DISTBUILD_AUTH_PASSWORD"}

LineAssigns(line, key) ==
    /\ Len(SplitN2(line)) = 2
    /\ Join(TrimSpace(SplitN2(line)[1])) = key

Without(content, key) == SelectSeq(content, LAMBDA l : ~LineAssigns(l, key))

\* A .env with an empty AGENT_BIN and a DISTNINJA_BIN that is no URL.
Broken ==
    << <<"AGENT_BIN", "=">>, <<"DISTNINJA_BIN", "=", "%zz">> >>
        \o Without(Without(Defaults, "AGENT_BIN"), "DISTNINJA_BIN")

EnvFiles == {Defaults, <<>>, Broken} \cup {Without(Defaults, k) : k \in ConfigKeys}

NoEnv == [k \in {} |-> ""]

ProcEnvs == {NoEnv, [k \in {"PROXY_BIN"} |-> "proxy.env"]}

ArgSets ==
    [aosp : {"unset", "", "/aosp"},
     distbuild : {"unset", "/dist"},
     deploy : {"unset", "true", "false"}]

\* <aosp-path>/build/distbuild before the run, and whether
\* <distbuild-path>/boong/bin exists.
Disks ==
    {[tree |-> "absent", bin |-> FALSE],
     [tree |-> "empty", bin |-> TRUE],
     [tree |-> "other files", bin |-> TRUE],
     [tree |-> "clone of repo.bundled", bin |-> TRUE]}

NoFile == [st |-> "absent", body |-> "none"]

\* what a GET was answered: nothing yet, no connection, or a status code
NotAsked == [asked |-> FALSE, connected |-> FALSE, status |-> 0]

NoConnection == [asked |-> TRUE, connected |-> FALSE, status |-> 0]

Status(c) == [asked |-> TRUE, connected |-> TRUE, status |-> c]

VARIABLES
    variant,    \* which of the three programs runs
    args,       \* the command line
    envFile,    \* //go:embed .env
    env,        \* the process environment
    pc,         \* where the main goroutine is
    runErr,     \* the error run() returns
    exitCode,   \* -1 while running
    errMsg,     \* what was written to the error stream
    tree,       \* contents of <aosp-path>/build/distbuild
    binDir,     \* <distbuild-path>/boong/bin exists
    files,      \* boong/bin/{proxy,agent,distninja}
    links,      \* symlinks under /usr/local/bin
    agentProc,  \* "none", "started", "copied"
    gpc,        \* each download goroutine's position
    gerr,       \* what each goroutine's downloadFile returned
    answered,   \* history: what each resource's URL answered
    errChan,    \* the buffered channel
    recvd,      \* the loop counter i of downloadResources
    firstSent,  \* history: the first non-nil error sent on errChan
    steps,      \* history: the steps of run() started, with their outcome
    effects,    \* history: the side effects performed so far
    cloneLog    \* history: the tree and result after each clone step

vars ==
    <<variant, args, envFile, env, pc, runErr, exitCode, errMsg, tree, binDir,
      files, links, agentProc, gpc, gerr, answered, errChan, recvd, firstSent,
      steps, effects, cloneLog>>

\* the flag variables of the program (StringVar / BoolVar, default "" / false)
aospPath == IF args.aosp = "unset" THEN "" ELSE args.aosp

deployAgent == variant = "deploy" /\ args.deploy = "true"

Init ==
    /\ variant \in Variants
    /\ args \in ArgSets
    /\ envFile \in EnvFiles
    /\ env \in ProcEnvs
    /\ \E d \in Disks : tree = d.tree /\ binDir = d.bin
    /\ pc = "start"
    /\ runErr = Nil
    /\ exitCode = -1
    /\ errMsg = Nil
    /\ files = [r \in ResourceSet |-> NoFile]
    /\ links = {}
    /\ agentProc = "none"
    /\ gpc = [r \in ResourceSet |-> "idle"]
    /\ gerr = [r \in ResourceSet |-> Nil]
    /\ answered = [r \in ResourceSet |-> NotAsked]
    /\ errChan = <<>>
    /\ recvd = 0
    /\ firstSent = Nil
    /\ steps = <<>>
    /\ effects = {}
    /\ cloneLog = <<>>


(***************************************************************************)
(* rootCmd.Execute(): cobra parses the flags, checks the required flags    *)
(* and the flag groups, and only then calls Run.                           *)
(***************************************************************************)
AllFlags == {"aosp", "distbuild", "deploy"}

GivenFlags(a) == {f \in AllFlags : a[f] # "unset"}

\* init(): the flags each variant registers
KnownFlags(v) == IF v = "deploy" THEN AllFlags ELSE {"aosp", "distbuild"}

\* init(): MarkFlagRequired
RequiredFlags(v) == IF v = "deploy" THEN {"distbuild"} ELSE {"aosp", "distbuild"}

ExclusiveGroupsNone(v) == {}

\* init(): MarkFlagsMutuallyExclusive
ExclusiveGroups(v) == IF v = "deploy" THEN {{"aosp", "deploy"}} ELSE {}

\* What Execute answers before run() is entered; "" when run() is entered.
\* The last test is the one at the head of Run in the deploy variant.
Rejection ==
    IF GivenFlags(args) \ KnownFlags(variant) # {} THEN "unknown flag"
    ELSE IF RequiredFlags(variant) \ GivenFlags(args) # {} THEN "required flag(s) not set"
    ELSE IF \E g \in ExclusiveGroups(variant) : Cardinality(g \cap GivenFlags(args)) > 1
         THEN "flags in the group are mutually exclusive"
    ELSE IF variant = "deploy" /\ aospPath = "" /\ ~deployAgent
         THEN "please specify either --aosp-path or --deploy-agent flag"
    ELSE ""

Execute ==
    /\ pc = "start"
    /\ LET why == Rejection IN
       IF why # ""
       THEN /\ pc' = "exited"
            /\ exitCode' = 1
            /\ errMsg' = Err(why, "")
       ELSE /\ pc' = "loadEnv"
            /\ UNCHANGED <<exitCode, errMsg>>
    /\ UNCHANGED <<variant, args, envFile, env, runErr, tree, binDir, files,
                   links, agentProc, gpc, gerr, errChan, recvd, firstSent,
                   steps, effects, cloneLog, answered>>

(***************************************************************************)
(* run(): the pipeline.  AfterStep is the "if err != nil { return }" after *)
(* each step; Successor is the statement that follows it.                  *)
(***************************************************************************)
Successor(v, step) ==
    CASE step = "loadEnv" -> IF deployAgent THEN "downloadAgent" ELSE "clone"
      [] step = "downloadAgent" -> "runAgent"
      [] step = "runAgent" -> "return"
      [] step = "clone" -> "download"
      [] step = "download" -> IF v = "scp" THEN "transfer" ELSE "symlinks"
      [] step = "transfer" -> "return"
      [] step = "symlinks" -> "return"

AfterStepIgnoringError(v, step, err) == Successor(v, step)

AfterStep(v, step, err) == IF err # Nil THEN "return" ELSE Successor(v, step)

StepWrap(step) ==
    CASE step = "downloadAgent" -> "download agent failed"
      [] step = "runAgent" -> ""
      [] step = "clone" -> "git clone failed"
      [] step = "download" -> "download resources failed"
      [] step = "transfer" -> "transfer agent failed"
      [] step = "symlinks" -> "create symlinks failed"

\* The error run() returns after a step: fmt.Errorf("<step> failed: %w", err).
RunErr(step, err) == IF err = Nil THEN Nil ELSE Wrap(StepWrap(step), err)

Outcome(err) == IF err = Nil THEN "ok" ELSE "fail"

Started(step) == Append(steps, [name |-> step, res |-> "running"])

Finished(step, err) == Append(steps, [name |-> step, res |-> Outcome(err)])

LoadEnvFile ==
    /\ pc = "loadEnv"
    /\ env' = LoadLines(env, envFile)
    /\ effects' = effects \cup (IF FileKeys(envFile) # {} THEN {"setenv"} ELSE {})
    /\ pc' = AfterStep(variant, "loadEnv", Nil)
    /\ UNCHANGED <<variant, args, envFile, runErr, exitCode, errMsg, tree,
                   binDir, files, links, agentProc, gpc, gerr, errChan, recvd,
                   firstSent, steps, cloneLog, answered>>

(***************************************************************************)
(* cloneDistbuildRepo                                                      *)
(***************************************************************************)
NotSet(key) == "environment variable " \o key \o " not set"

ConfigErrors == {NotSet(k) : k \in ConfigKeys} \cup {"auth variables not set"}

\* git clone <url> <dir>: git refuses a directory that is not empty.
GitClone(t, url, netOK) ==
    IF t \notin {"absent", "empty"}
    THEN [tree |-> t, err |-> Err("exit status 128: destination path already exists and is not an empty directory", "")]
    ELSE IF url = "" \/ ~netOK
    THEN [tree |-> t, err |-> Err("exit status 128: could not read from remote repository", "")]
    ELSE [tree |-> "clone of " \o url, err |-> Nil]

\* lines 345-370 and 641-666: RemoveAll, MkdirAll, LookupEnv, git clone
CloneStep(t, e, rmOK, mkOK, netOK) ==
    IF ~rmOK
    THEN [tree |-> t, fx |-> {},
          err |-> Err("failed to remove existing distbuild directory", "")]
    ELSE LET fx1 == IF t # "absent" THEN {"removed target"} ELSE {} IN
    IF ~mkOK
    THEN [tree |-> "absent", fx |-> fx1, err |-> Err("create directory failed", "")]
    ELSE LET fx2 == fx1 \cup {"created target"} IN
    IF ~LookupEnv(e, "DISTBUILD_REPO")
    THEN [tree |-> "empty", fx |-> fx2, err |-> Err(NotSet("DISTBUILD_REPO"), "")]
    ELSE LET g == GitClone("empty", Getenv(e, "DISTBUILD_REPO"), netOK) IN
         [tree |-> g.tree, fx |-> fx2 \cup {"git clone"}, err |-> g.err]

\* lines 104-124: MkdirAll, LookupEnv, git clone (no RemoveAll)
CloneStepScp(t, e, mkOK, netOK) ==
    IF ~mkOK
    THEN [tree |-> t, fx |-> {}, err |-> Err("create directory failed", "")]
    ELSE LET t1 == IF t = "absent" THEN "empty" ELSE t
             fx1 == IF t = "absent" THEN {"created target"} ELSE {} IN
    IF ~LookupEnv(e, "DISTBUILD_REPO")
    THEN [tree |-> t1, fx |-> fx1, err |-> Err(NotSet("DISTBUILD_REPO"), "")]
    ELSE LET g == GitClone(t1, Getenv(e, "DISTBUILD_REPO"), netOK) IN
         [tree |-> g.tree, fx |-> fx1 \cup {"git clone"}, err |-> g.err]

CloneDone(r, diskOK, netOK) ==
    /\ tree' = r.tree
    /\ effects' = effects \cup r.fx
    /\ runErr' = RunErr("clone", r.err)
    /\ pc' = AfterStep(variant, "clone", r.err)
    /\ steps' = Finished("clone", r.err)
    /\ cloneLog' = Append(cloneLog, [tree |-> r.tree, err |-> r.err,
                                     source |-> Getenv(env, "DISTBUILD_REPO"),
                                     diskOK |-> diskOK, reachable |-> netOK])
    /\ UNCHANGED <<variant, args, envFile, env, exitCode, errMsg, binDir,
                   files, links, agentProc, gpc, gerr, errChan, recvd,
                   firstSent, answered>>

CloneDistbuildRepo ==
    /\ pc = "clone"
    /\ variant # "scp"
    /\ \E rmOK, mkOK, netOK \in BOOLEAN :
         CloneDone(CloneStep(tree, env, rmOK, mkOK, netOK), rmOK /\ mkOK, netOK)

CloneDistbuildRepoScp ==
    /\ pc = "clone"
    /\ variant = "scp"
    /\ \E mkOK, netOK \in BOOLEAN :
         CloneDone(CloneStepScp(tree, env, mkOK, netOK), mkOK, netOK)


(***************************************************************************)
(* downloadFile, in two parts: up to os.Create (the request is answered    *)
(* and the file exists, empty), then io.Copy and os.Chmod.                 *)
(***************************************************************************)
\* url.Parse, as http.NewRequest and http.Get apply it
ValidURL(url) == url # "%zz"

\* what the server, or the network, answers; a URL with no scheme never connects
Answers(url) ==
    IF url = "" THEN {NoConnection}
    ELSE {NoConnection} \cup {Status(c) : c \in StatusCodes}

Body(answer) == IF answer.status = StatusOK THEN "binary" ELSE "error page"

\* asked: whether the GET was sent before downloadFile returned or went on
Go(f, fx) == [go |-> TRUE, err |-> Nil, file |-> f, fx |-> fx, asked |-> TRUE]

Fail(kind, name, f, fx, asked) ==
    [go |-> FALSE, err |-> Err(kind, name), file |-> f, fx |-> fx, asked |-> asked]

\* lines 468-498 and 721-751
Fetch(e, url, name, f, answer, createOK) ==
    IF ~ValidURL(url) THEN Fail("create request failed", name, f, {}, FALSE)
    ELSE IF Getenv(e, "DISTBUILD_AUTH_USER") = "" \/ Getenv(e, "DISTBUILD_AUTH_PASSWORD") = ""
    THEN Fail("auth variables not set", name, f, {}, FALSE)
    ELSE IF ~answer.connected THEN Fail("download failed", name, f, {}, TRUE)
    ELSE IF answer.status # StatusOK
    THEN Fail("download failed with status code", name, f, {"http"}, TRUE)
    ELSE IF ~createOK THEN Fail("create file failed", name, f, {"http"}, TRUE)
    ELSE Go([st |-> "partial", body |-> Body(answer)], {"http", "file"})

\* lines 179-192: http.Get, os.Create
FetchScp(e, url, name, f, answer, createOK) ==
    IF ~ValidURL(url) THEN Fail("download failed", name, f, {}, FALSE)
    ELSE IF ~answer.connected THEN Fail("download failed", name, f, {}, TRUE)
    ELSE IF ~createOK THEN Fail("create file failed", name, f, {"http"}, TRUE)
    ELSE Go([st |-> "partial", body |-> Body(answer)], {"http", "file"})

FetchOf(v, e, url, name, f, answer, createOK) ==
    IF v = "scp" THEN FetchScp(e, url, name, f, answer, createOK)
    ELSE Fetch(e, url, name, f, answer, createOK)

\* io.Copy, os.Chmod and the return
Write(name, f, copyOK, chmodOK) ==
    IF ~copyOK THEN [err |-> Err("write file failed", name), file |-> f]
    ELSE IF ~chmodOK
    THEN [err |-> Err("chmod failed", name), file |-> [f EXCEPT !.st = "written"]]
    ELSE [err |-> Nil, file |-> [f EXCEPT !.st = "executable"]]

(***************************************************************************)
(* downloadResources                                                       *)
(***************************************************************************)
FirstMissingUnchecked(e, rs) == ""

\* the first of PROXY_BIN, AGENT_BIN, DISTNINJA_BIN that LookupEnv misses
RECURSIVE FirstMissing(_, _)
FirstMissing(e, rs) ==
    IF rs = <<>> THEN ""
    ELSE IF ~LookupEnv(e, UrlVar(Head(rs))) THEN UrlVar(Head(rs))
    ELSE FirstMissing(e, Tail(rs))

\* MkdirAll(binDir) and the three LookupEnv calls
Prepare(e, hadBin, mkOK, rs) ==
    IF ~mkOK THEN [err |-> Err("create bin directory failed", ""), bin |-> hadBin, fx |-> {}]
    ELSE LET fx1 == IF hadBin THEN {} ELSE {"created bin"} IN
    IF FirstMissing(e, rs) # ""
    THEN [err |-> Err(NotSet(FirstMissing(e, rs)), ""), bin |-> TRUE, fx |-> fx1]
    ELSE [err |-> Nil, bin |-> TRUE, fx |-> fx1]

\* up to the three go statements
DownloadResources ==
    /\ pc = "download"
    /\ \E mkOK \in BOOLEAN :
         LET p == Prepare(env, binDir, mkOK, Resources) IN
         /\ binDir' = p.bin
         /\ effects' = effects \cup p.fx
                           \cup (IF p.err = Nil THEN {"downloads started"} ELSE {})
         /\ IF p.err # Nil
            THEN /\ runErr' = RunErr("download", p.err)
                 /\ pc' = AfterStep(variant, "download", p.err)
                 /\ steps' = Finished("download", p.err)
                 /\ UNCHANGED <<gpc, errChan, recvd>>
            ELSE /\ gpc' = [r \in ResourceSet |-> "fetch"]
                 /\ errChan' = <<>>
                 /\ recvd' = 0
                 /\ pc' = "wait"
                 /\ steps' = Started("download")
                 /\ UNCHANGED runErr
    /\ UNCHANGED <<variant, args, envFile, env, exitCode, errMsg, tree, files,
                   links, agentProc, gerr, firstSent, cloneLog, answered>>

\* a goroutine's downloadFile, first part
GoFetch(r) ==
    /\ gpc[r] = "fetch"
    /\ pc # "exited"
    /\ \E answer \in Answers(Getenv(env, UrlVar(r))), createOK \in BOOLEAN :
         LET d == FetchOf(variant, env, Getenv(env, UrlVar(r)), r, files[r],
                          answer, createOK) IN
         /\ files' = [files EXCEPT ![r] = d.file]
         /\ answered' = [answered EXCEPT ![r] = IF d.asked THEN answer ELSE NotAsked]
         /\ effects' = effects \cup d.fx
         /\ gerr' = [gerr EXCEPT ![r] = d.err]
         /\ gpc' = [gpc EXCEPT ![r] = IF d.go THEN "write" ELSE "send"]
    /\ UNCHANGED <<variant, args, envFile, env, pc, runErr, exitCode, errMsg,
                   tree, binDir, links, agentProc, errChan, recvd, firstSent,
                   steps, cloneLog>>

\* a goroutine's downloadFile, second part
GoWrite(r) ==
    /\ gpc[r] = "write"
    /\ pc # "exited"
    /\ \E copyOK, chmodOK \in BOOLEAN :
         LET w == Write(r, files[r], copyOK, chmodOK) IN
         /\ files' = [files EXCEPT ![r] = w.file]
         /\ gerr' = [gerr EXCEPT ![r] = w.err]
         /\ gpc' = [gpc EXCEPT ![r] = "send"]
    /\ UNCHANGED <<variant, args, envFile, env, pc, runErr, exitCode, errMsg,
                   tree, binDir, links, agentProc, errChan, recvd, firstSent,
                   steps, effects, cloneLog, answered>>

ErrChanCapTooSmall == Len(Resources) - 1

\* make(chan error, 3)
ErrChanCap == 3

\* errChan <- downloadFile(...): blocks while the buffer is full
GoSend(r) ==
    /\ gpc[r] = "send"
    /\ pc # "exited"
    /\ Len(errChan) < ErrChanCap
    /\ errChan' = Append(errChan, gerr[r])
    /\ firstSent' = IF firstSent = Nil THEN gerr[r] ELSE firstSent
    /\ gpc' = [gpc EXCEPT ![r] = "done"]
    /\ UNCHANGED <<variant, args, envFile, env, pc, runErr, exitCode, errMsg,
                   tree, binDir, files, links, agentProc, gerr, recvd, steps,
                   effects, cloneLog, answered>>

ReceiveNewest(ch) == Len(ch)

\* <-errChan takes the oldest value of the buffer
Receive(ch) == 1

Remove(ch, i) == SubSeq(ch, 1, i - 1) \o SubSeq(ch, i + 1, Len(ch))

SetLast(s, res) == [s EXCEPT ![Len(s)].res = res]

\* one iteration of the receive loop
Recv ==
    /\ pc = "wait"
    /\ errChan # <<>>
    /\ LET i == Receive(errChan)
           err == errChan[i] IN
       /\ errChan' = Remove(errChan, i)
       /\ recvd' = recvd + 1
       /\ IF err # Nil \/ recvd + 1 = RecvCount
          THEN /\ runErr' = RunErr("download", err)
               /\ pc' = AfterStep(variant, "download", err)
               /\ steps' = SetLast(steps, Outcome(err))
          ELSE UNCHANGED <<runErr, pc, steps>>
    /\ UNCHANGED <<variant, args, envFile, env, exitCode, errMsg, tree, binDir,
                   files, links, agentProc, gpc, gerr, firstSent, effects,
                   cloneLog, answered>>


(***************************************************************************)
(* The steps that follow the downloads, and the agent-deploy mode.         *)
(***************************************************************************)
\* sudo ln -sf, twice; the first failure returns
CreateSymlinks ==
    /\ pc = "symlinks"
    /\ \E ninjaOK, proxyOK \in BOOLEAN :
         LET err == IF ~ninjaOK THEN Err("distninja symlink failed", "")
                    ELSE IF ~proxyOK THEN Err("proxy symlink failed", "")
                    ELSE Nil
             made == IF ~ninjaOK THEN {}
                     ELSE IF ~proxyOK THEN {"distninja"}
                     ELSE {"distninja", "proxy"} IN
         /\ links' = links \cup made
         /\ effects' = effects \cup (IF made # {} THEN {"symlink"} ELSE {})
         /\ runErr' = RunErr("symlinks", err)
         /\ pc' = AfterStep(variant, "symlinks", err)
         /\ steps' = Finished("symlinks", err)
    /\ UNCHANGED <<variant, args, envFile, env, exitCode, errMsg, tree, binDir,
                   files, agentProc, gpc, gerr, errChan, recvd, firstSent,
                   cloneLog, answered>>

\* sshpass scp boong/bin/agent <worker>:~/
TransferAgent ==
    /\ pc = "transfer"
    /\ \E scpOK \in BOOLEAN :
         LET err == IF scpOK THEN Nil ELSE Err("exit status 1: scp", "") IN
         /\ agentProc' = IF scpOK THEN "copied" ELSE agentProc
         /\ effects' = effects \cup (IF scpOK THEN {"scp"} ELSE {})
         /\ runErr' = RunErr("transfer", err)
         /\ pc' = AfterStep(variant, "transfer", err)
         /\ steps' = Finished("transfer", err)
    /\ UNCHANGED <<variant, args, envFile, env, exitCode, errMsg, tree, binDir,
                   files, links, gpc, gerr, errChan, recvd, firstSent,
                   cloneLog, answered>>

\* MkdirAll, LookupEnv("AGENT_BIN"), downloadFile on the main goroutine
DownloadAgentStep(e, hadBin, f, mkOK, answer, createOK, copyOK, chmodOK) ==
    LET p == Prepare(e, hadBin, mkOK, <<"agent">>) IN
    IF p.err # Nil
    THEN [err |-> p.err, bin |-> p.bin, file |-> f, fx |-> p.fx, asked |-> FALSE]
    ELSE LET d == Fetch(e, Getenv(e, "AGENT_BIN"), "agent", f, answer, createOK) IN
    IF ~d.go
    THEN [err |-> d.err, bin |-> TRUE, file |-> d.file, fx |-> p.fx \cup d.fx,
          asked |-> d.asked]
    ELSE LET w == Write("agent", d.file, copyOK, chmodOK) IN
         [err |-> w.err, bin |-> TRUE, file |-> w.file, fx |-> p.fx \cup d.fx,
          asked |-> TRUE]

DownloadAgent ==
    /\ pc = "downloadAgent"
    /\ \E mkOK, createOK, copyOK, chmodOK \in BOOLEAN :
       \E answer \in Answers(Getenv(env, "AGENT_BIN")) :
         LET a == DownloadAgentStep(env, binDir, files["agent"], mkOK, answer,
                                    createOK, copyOK, chmodOK) IN
         /\ binDir' = a.bin
         /\ files' = [files EXCEPT !["agent"] = a.file]
         /\ answered' = [answered EXCEPT !["agent"] = IF a.asked THEN answer ELSE NotAsked]
         /\ effects' = effects \cup a.fx
         /\ runErr' = RunErr("downloadAgent", a.err)
         /\ pc' = AfterStep(variant, "downloadAgent", a.err)
         /\ steps' = Finished("downloadAgent", a.err)
    /\ UNCHANGED <<variant, args, envFile, env, exitCode, errMsg, tree, links,
                   agentProc, gpc, gerr, errChan, recvd, firstSent, cloneLog>>

\* os.Create(agent.log), cmd.Start(); the parent does not wait
RunAgent ==
    /\ pc = "runAgent"
    /\ \E logOK, startOK \in BOOLEAN :
         LET err == IF ~logOK THEN Err("create log file failed", "")
                    ELSE IF ~startOK THEN Err("agent startup failed", "")
                    ELSE Nil IN
         /\ agentProc' = IF err = Nil THEN "started" ELSE agentProc
         /\ effects' = effects \cup (IF logOK THEN {"agent.log"} ELSE {})
                               \cup (IF err = Nil THEN {"process"} ELSE {})
         /\ runErr' = RunErr("runAgent", err)
         /\ pc' = AfterStep(variant, "runAgent", err)
         /\ steps' = Finished("runAgent", err)
    /\ UNCHANGED <<variant, args, envFile, env, exitCode, errMsg, tree, binDir,
                   files, links, gpc, gerr, errChan, recvd, firstSent,
                   cloneLog, answered>>

\* Run: os.Exit(1) on an error of run(); main returns otherwise
ExitCode(err) == IF err # Nil THEN 1 ELSE 0

\* the process ends, and its goroutines with it
Exit ==
    /\ pc = "return"
    /\ pc' = "exited"
    /\ exitCode' = ExitCode(runErr)
    /\ errMsg' = runErr
    /\ gpc' = [r \in ResourceSet |->
                 IF gpc[r] \in {"fetch", "write", "send"} THEN "killed" ELSE gpc[r]]
    /\ UNCHANGED <<variant, args, envFile, env, runErr, tree, binDir, files,
                   links, agentProc, gerr, errChan, recvd, firstSent, steps,
                   effects, cloneLog, answered>>

Next ==
    \/ Execute
    \/ LoadEnvFile
    \/ CloneDistbuildRepo
    \/ CloneDistbuildRepoScp
    \/ DownloadResources
    \/ \E r \in ResourceSet : GoFetch(r)
    \/ \E r \in ResourceSet : GoWrite(r)
    \/ \E r \in ResourceSet : GoSend(r)
    \/ Recv
    \/ CreateSymlinks
    \/ TransferAgent
    \/ DownloadAgent
    \/ RunAgent
    \/ Exit

Spec == Init /\ [][Next]_vars

(***************************************************************************)
(* The clone step run again on the tree it left, as a second run of the    *)
(* program against the same --aosp-path does.                              *)
(***************************************************************************)
MaxCloneRuns == 2

CloneAgain ==
    /\ pc = "download"
    /\ Len(cloneLog) < MaxCloneRuns
    /\ pc' = "clone"
    /\ UNCHANGED <<variant, args, envFile, env, runErr, exitCode, errMsg, tree,
                   binDir, files, links, agentProc, gpc, gerr, errChan, recvd,
                   firstSent, steps, effects, cloneLog, answered>>

NextClone ==
    \/ Execute
    \/ LoadEnvFile
    \/ CloneDistbuildRepo
    \/ CloneDistbuildRepoScp
    \/ CloneAgain
    \/ Exit

SpecClone == Init /\ [][NextClone]_vars


(***************************************************************************)
(* Properties                                                              *)
(***************************************************************************)
StepDone(name, res) == \E i \in 1..Len(steps) : steps[i] = [name |-> name, res |-> res]

StepRan(name) == \E i \in 1..Len(steps) : steps[i].name = name

\* downloadResources has returned (with either result) and the process lives
DownloadsReturned ==
    /\ pc # "exited"
    /\ StepDone("download", "ok") \/ StepDone("download", "fail")

\* C1: downloadResources returns only after every download it started has
\* finished: once it has returned, no download goroutine is still running.
C1_ReturnsAfterAllDownloads ==
    DownloadsReturned => \A r \in ResourceSet : gpc[r] \in {"idle", "done"}

BadAnswer(r) ==
    /\ answered[r].asked
    /\ ~answered[r].connected \/ answered[r].status = 404

\* nothing else went wrong: every other resource was answered 200 and its
\* downloadFile returned nil, and no other step of the run failed
OnlyFailure(r) ==
    /\ \A o \in ResourceSet \ {r} :
          gpc[o] = "idle" \/ (gpc[o] = "done" /\ gerr[o] = Nil /\ answered[o] = Status(StatusOK))
    /\ \A i \in 1..Len(steps) :
          steps[i].name \notin {"download", "downloadAgent"} => steps[i].res = "ok"

\* C2: if a resource's URL answers 404 or the connection fails (and it is
\* the one download that went wrong), the run exits non-zero and the error
\* message names that resource's destination file.
C2_FailedDownloadNamed ==
    \A r \in ResourceSet :
        (pc = "exited" /\ BadAnswer(r) /\ OnlyFailure(r))
            => (exitCode # 0 /\ errMsg.file = r)

FlagErrors ==
    {"unknown flag", "required flag(s) not set",
     "please specify either --aosp-path or --deploy-agent flag"}

\* C3: when a missing configuration value (flag or environment variable) is
\* reported, no directory has been removed or created, no clone has run and
\* no download has started.
C3_ConfigErrorBeforeSideEffects ==
    (pc = "exited" /\ errMsg.kind \in ConfigErrors \cup FlagErrors)
        => effects \cap {"removed target", "created target", "created bin",
                         "git clone", "downloads started"} = {}

NothingDone ==
    /\ effects = {}
    /\ steps = <<>>
    /\ env \in ProcEnvs
    /\ files = [r \in ResourceSet |-> NoFile]
    /\ links = {}
    /\ agentProc = "none"
    /\ \A r \in ResourceSet : gpc[r] = "idle"

\* C4: a run given both --deploy-agent and --aosp-path, and a run given
\* neither, is rejected with exit code 1 before any side effect: run() is
\* never entered.
C4_ModesExclusive ==
    LET both == args.deploy # "unset" /\ args.aosp # "unset"
        neither == args.deploy = "unset" /\ args.aosp = "unset" IN
    (both \/ neither) =>
        /\ pc \in {"start", "exited"}
        /\ NothingDone
        /\ pc = "exited" => exitCode = 1

C4_Witness ==
    /\ pc = "exited"
    /\ variant = "deploy"
    /\ args = [aosp |-> "/aosp", distbuild |-> "/dist", deploy |-> "true"]
    /\ exitCode = 1
    /\ errMsg.kind = "flags in the group are mutually exclusive"

ModeSteps ==
    IF deployAgent THEN <<"downloadAgent", "runAgent">>
    ELSE IF variant = "scp" THEN <<"clone", "download", "transfer">>
    ELSE <<"clone", "download", "symlinks">>

\* C5: the steps started are a prefix of the selected mode's steps, in
\* order and each at most once; a step starts only after the previous one
\* succeeded; a failed step is the last one and the exit code is 1; the
\* exit code is 0 exactly when every step of the mode succeeded; a tree
\* cloned by an earlier step is still there when a later step failed.
C5_FailFastPipeline ==
    /\ Len(steps) <= Len(ModeSteps)
    /\ \A i \in 1..Len(steps) : steps[i].name = ModeSteps[i]
    /\ \A i \in 1..(Len(steps) - 1) : steps[i].res = "ok"
    /\ pc = "exited" =>
         /\ exitCode \in {0, 1}
         /\ exitCode = 0 <=>
              /\ Len(steps) = Len(ModeSteps)
              /\ \A i \in 1..Len(steps) : steps[i].res = "ok"
         /\ \A i \in 1..Len(steps) : steps[i].res # "running"
    /\ StepDone("clone", "ok") => tree = "clone of " \o Getenv(env, "DISTBUILD_REPO")

C5_Witness ==
    /\ pc = "exited"
    /\ exitCode = 1
    /\ steps = <<[name |-> "clone", res |-> "ok"], [name |-> "download", res |-> "fail"]>>
    /\ tree = "clone of repo.bundled"
    /\ links = {}

\* a download goroutine's error made downloadResources fail
ADownloadFailed == StepDone("download", "fail") /\ firstSent # Nil

\* C6: when downloads fail, the one error downloadResources returns is the
\* error that was sent on the channel first, whichever goroutine sent it;
\* it is the only one that reaches the error stream.
C6_FirstErrorWins ==
    ADownloadFailed =>
        /\ runErr = Wrap("download resources failed", firstSent)
        /\ pc = "exited" => errMsg = runErr

\* all three downloads failed, and the one started last is reported
C6_Witness ==
    /\ pc = "exited"
    /\ \A r \in ResourceSet : gpc[r] = "done" /\ gerr[r] # Nil
    /\ errMsg.file = "distninja"
    /\ Len(errChan) = 2

NeededUrls ==
    IF StepRan("download") THEN ResourceSet
    ELSE IF StepRan("downloadAgent") THEN {"agent"}
    ELSE {}

C8_CloneIdempotent ==
    Len(cloneLog) >= 2 =>
        LET a == cloneLog[1]
            b == cloneLog[2] IN
        (a.err = Nil /\ b.source = a.source /\ b.diskOK /\ b.reachable)
            => (b.err = Nil /\ b.tree = a.tree)

\* C9: a key the environment already holds keeps its value when
\* loadEnvFile runs, also when the bundled file assigns it.
C9_EnvironmentWins ==
    [][pc = "loadEnv" =>
         \A k \in FileKeys(envFile) \cap DOMAIN env : env'[k] = env[k]]_vars

\* C10: a goroutine that is about to send finds room in the channel, and
\* every goroutine that finished sent exactly one value: the values sent
\* are those received plus those still buffered.
C10_SendNeverBlocks ==
    /\ \A r \in ResourceSet : gpc[r] = "send" => Len(errChan) < ErrChanCap
    /\ Len(errChan) + recvd = Cardinality({r \in ResourceSet : gpc[r] = "done"})

\* downloadResources returned on the first error; the other two sent later
C10_Witness ==
    /\ pc = "return"
    /\ recvd = 1
    /\ Len(errChan) = 2
    /\ \A r \in ResourceSet : gpc[r] = "done"
    /\ errChan[2] = Nil


\* a step that uses the downloaded binaries is about to start or has started
ConsumerReached ==
    \/ pc \in {"symlinks", "transfer"}
    \/ StepRan("symlinks")
    \/ StepRan("transfer")

\* C11: createSymlinks and transferAgent start only when all three
\* downloads have reported success: no download goroutine is in flight,
\* none returned an error, all three results were received, and each of
\* proxy, agent and distninja is completely written and executable.
C11_ConsumerAfterDownloads ==
    ConsumerReached =>
        /\ StepDone("download", "ok")
        /\ recvd = RecvCount
        /\ errChan = <<>>
        /\ \A r \in ResourceSet :
             /\ gpc[r] = "done"
             /\ gerr[r] = Nil
             /\ files[r].st = "executable"

C11_Witness ==
    /\ variant = "plain"
    /\ StepDone("symlinks", "ok")
    /\ links = {"distninja", "proxy"}
    /\ \A r \in ResourceSet : gpc[r] = "done" /\ files[r] = [st |-> "executable", body |-> "binary"]

====
